---- MODULE Spec2Model ----
(***************************************************************************)
(* The front ends of llm-app-proto as state machines: the streaming chat    *)
(* transport (useChat.sendMessage + ChatService) with its session store,   *)
(* the RAG bot pages (RAGBotService, BotDetails, CreateBot, BotList), the   *)
(* ChatPanel of llm-chat-app and the AudioProcessor of voice-chat.          *)
(*                                                                         *)
(* Text is a sequence of one-character strings.  The response body is a    *)
(* sequence of bytes; the bytes of an ASCII character are the character    *)
(* itself, the two bytes of U+00E9 are "C3" "A9", the decoded character is *)
(* written "E9" and the replacement character U+FFFD is written "FFFD".    *)
(***************************************************************************)
EXTENDS Integers, Sequences, FiniteSets, TLC

\* ------------------------------------------------------------------ bounds
MaxFrames == 2
MaxTurns == 2
MaxSessions == 2
MaxClears == 1
MaxScript == 4

\* ------------------------------------------------------- program constants
TitleMax == 40
PrefixLen == 6

LF == "\n"
DataPrefix == <<"d", "a", "t", "a", ":", " ">>
DoneMark == <<"[", "D", "O", "N", "E", "]">>
NewChatTitle == <<"N", "e", "w", " ", "C", "h", "a", "t">>
Ellipsis == <<".", ".", ".">>
NoHeader == <<>>

\* ------------------------------------------------------------ text helpers
RECURSIVE Flatten(_)
Flatten(ss) ==
    IF ss = <<>> THEN <<>> ELSE Head(ss) \o Flatten(Tail(ss))

\* String.prototype.slice(from) / slice(from, to) with 0-based offsets
Slice(s, from, to) ==
    SubSeq(s, from + 1, IF to < Len(s) THEN to ELSE Len(s))

StartsWith(s, p) ==
    /\ Len(s) >= Len(p)
    /\ SubSeq(s, 1, Len(p)) = p

IsSpace(c) == c \in {" ", LF}

RECURSIVE TrimStart(_)
TrimStart(s) ==
    IF s # <<>> /\ IsSpace(Head(s)) THEN TrimStart(Tail(s)) ELSE s

RECURSIVE TrimEnd(_)
TrimEnd(s) ==
    IF s # <<>> /\ IsSpace(s[Len(s)]) THEN TrimEnd(SubSeq(s, 1, Len(s) - 1)) ELSE s

Trim(s) == TrimEnd(TrimStart(s))

\* chunk.split('\n'): the pieces between line feeds, always at least one
RECURSIVE SplitFrom(_, _)
SplitFrom(s, cur) ==
    IF s = <<>> THEN <<cur>>
    ELSE IF Head(s) = LF THEN <<cur>> \o SplitFrom(Tail(s), <<>>)
    ELSE SplitFrom(Tail(s), Append(cur, Head(s)))

SplitLines(s) == SplitFrom(s, <<>>)

\* TextDecoder.decode(value) without { stream: true }: every chunk is decoded
\* on its own, an incomplete or stray byte becomes U+FFFD
RECURSIVE Decode(_)
Decode(b) ==
    IF b = <<>> THEN <<>>
    ELSE IF Head(b) = "C3"
         THEN IF Len(b) >= 2 /\ b[2] = "A9"
              THEN <<"E9">> \o Decode(SubSeq(b, 3, Len(b)))
              ELSE <<"FFFD">> \o Decode(Tail(b))
    ELSE IF Head(b) = "A9" THEN <<"FFFD">> \o Decode(Tail(b))
    ELSE <<Head(b)>> \o Decode(Tail(b))

\* ------------------------------------------------------------- the server
Utf8(c) == IF c = "E9" THEN <<"C3", "A9">> ELSE <<c>>

RECURSIVE Utf8Text(_)
Utf8Text(s) ==
    IF s = <<>> THEN <<>> ELSE Utf8(Head(s)) \o Utf8Text(Tail(s))

\* one frame on the wire: `data: <payload>` and a blank line
EncodeFrame(p) == Utf8Text(DataPrefix \o p) \o <<LF, LF>>

RECURSIVE EncodeFrames(_)
EncodeFrames(fs) ==
    IF fs = <<>> THEN <<>> ELSE EncodeFrame(Head(fs)) \o EncodeFrames(Tail(fs))

Payloads == { <<"E9">>, <<"a", LF, "b">>, <<>>, DoneMark }

FrameSeqs == UNION { [1..n -> Payloads] : n \in 0..MaxFrames }

ServerIds == { <<"server", 1>>, <<"server", 2>> }

LocalId(n) == <<"session", n>>

Canonical == { <<"c", LF, "d">> }

Contents == { <<"h", "i">> }

\* ---------------------------------------------------------------- state
VARIABLES
    currentSession,    \* useChat: [id, title, messages]
    messages,          \* useChat: the transcript, a sequence of [role, content]
    isLoading,
    isStreaming,
    streamingMessage,
    pc,                \* position of the sendMessage call in flight
    sessionToUse,      \* sendMessage local
    sessionId,         \* sendMessage local: the id ChatService.sendMessage returned
    fullResponse,      \* sendMessage local
    wire,              \* bytes of the response body not yet delivered
    nextLocal,         \* number of ids generateSessionId has handed out
    clearPc,           \* position of the clearCurrentChat call in flight
    clearId,           \* the id that call sent
    reqId,             \* session_id of the POST /chat/stream in flight
    latestId,          \* id of the GET /chat/latest in flight
    sentFrames,        \* history: the frames of the current response body
    doneSeen,          \* history: `[DONE]` was processed in this turn
    bufAtDone,         \* history: fullResponse and transcript length at the first `[DONE]`
    reads,             \* history: chunks read in this turn
    outcome,           \* history: how this turn ended: "postFailed", "readFailed", "closed"
    header,            \* history: X-Session-ID of this turn's response
    appended,          \* history: assistant messages appended in this turn
    lookup,            \* history: the last latest-message lookup and the buffer at that time
    superseded,        \* history: ids replaced by an X-Session-ID
    turns,
    clears,
    script,            \* the status responses the server will give, in order
    pollIdx,           \* how many of them have been consumed
    pollPc,            \* position of the waitForBotReady call
    hasCallback,       \* onProgress was supplied
    progressCalls,     \* the arguments onProgress was invoked with, in order
    rejectReason,      \* message of the error the promise was rejected with
    lastResponse,      \* history: the response handled last
    beyond,            \* history: a poll was answered after the script ran out
    requests,          \* status requests issued by checkStatus and not yet answered
    timers,            \* setTimeout(checkStatus) timers set and not yet fired
    settles,           \* history: calls of resolve and reject so far
    sessions,          \* useChatHistory: the stored sessions, [id, title, messages, updatedAt]
    storage,           \* localStorage item 'langchain-chat-sessions'
    now,               \* the clock read by new Date()
    removed,           \* history: ids deleted and not used by a sendMessage since
    picks,             \* history: number of sidebar events (select, delete) so far
    upPc,              \* position of the RAGBotService.uploadDocument call
    upCallback,        \* onProgress was supplied to it
    upReason,          \* message of the error it threw
    upTransport,       \* history: how POST /bots/{id}/documents was answered
    hfPc,              \* position of BotDetails.handleFileUpload
    uploading,
    uploadError,
    uploadSuccess,
    fileName,          \* history: name of the file chosen last
    uploadPosts,       \* history: POST /bots/{id}/documents requests issued
    creating,
    createPc,          \* position of CreateBot.handleSubmit
    createError,
    loading,
    listPc,            \* position of BotList.loadBots
    listError,
    failures,          \* history: the operations whose last run failed
    bots,              \* BotList: the local list, a sequence of bot ids
    deleting,          \* handleDeleteBot calls awaiting deleteBot: [id, bots], bots
                       \* being the list their closure captured
    gone,              \* the server: ids of the bots it has deleted
    deletedOk,         \* history: ids whose deleteBot succeeded since the last load
    cpMessages,        \* ChatPanel: messages, a sequence of [sender, text]
    cpLoading,         \* ChatPanel: isLoading
    cpPc,              \* position of ChatPanel.handleSendMessage / getLLMResponse
    cpQuestion,        \* the question that call was given
    cpConfigured,      \* bedrockService.isConfigured()
    asked,             \* history: questions accepted so far
    attempts,          \* history: submits that returned at the guard
    isRecording,       \* AudioProcessor
    originalSampleRate,
    audioBuffer,       \* the frames buffered, each [frame, samples]
    bufferSize,
    silenceCounter,
    chunkCount,
    port,              \* the messages posted to the main thread, in order
    spoken,            \* history: the frames classified as speech while recording
    spoke,             \* history: a speech frame was processed since 'start'
    quiet,             \* history: silent frames processed since the last speech frame
    ends,              \* history: speechEnd messages posted since the last speech frame
    processed,         \* history: frames handed to process()
    commands           \* history: 'start' and 'stop' messages handled

chatVars == <<currentSession, messages, isLoading, isStreaming, streamingMessage,
              pc, sessionToUse, sessionId, fullResponse, wire, nextLocal,
              clearPc, clearId, reqId, latestId, sentFrames, doneSeen, bufAtDone,
              reads, outcome, header, appended, lookup, superseded, turns, clears>>

pollVars == <<script, pollIdx, pollPc, hasCallback, progressCalls, rejectReason,
              lastResponse, beyond, requests, timers, settles>>

storeVars == <<sessions, storage, now, removed, picks>>

botVars == <<bots, deleting, gone, deletedOk>>

ragVars == <<upPc, upCallback, upReason, upTransport, hfPc, uploading, uploadError, uploadSuccess,
             fileName, uploadPosts, creating, createPc, createError, loading, listPc,
             listError, failures, botVars>>

panelVars == <<cpMessages, cpLoading, cpPc, cpQuestion, cpConfigured, asked, attempts>>

audioVars == <<isRecording, originalSampleRate, audioBuffer, bufferSize, silenceCounter,
               chunkCount, port, spoken, spoke, quiet, ends, processed, commands>>

\* the applications next to the chat pages: llm-chat-app and voice-chat
otherApps == <<panelVars, audioVars>>

vars == <<chatVars, pollVars, storeVars, ragVars, otherApps>>

Msg(r, c) == [role |-> r, content |-> c]

NewSession(n) == [id |-> LocalId(n), title |-> NewChatTitle, messages |-> <<>>]

\* state after mount: the effect has run startNewSession once
InitChat ==
    /\ currentSession = NewSession(1)
    /\ messages = <<>>
    /\ isLoading = FALSE
    /\ isStreaming = FALSE
    /\ streamingMessage = <<>>
    /\ pc = "idle"
    /\ sessionToUse = NewSession(1)
    /\ sessionId = NoHeader
    /\ fullResponse = <<>>
    /\ wire = <<>>
    /\ nextLocal = 1
    /\ clearPc = "idle"
    /\ clearId = NoHeader
    /\ reqId = NoHeader
    /\ latestId = NoHeader
    /\ sentFrames = <<>>
    /\ doneSeen = FALSE
    /\ bufAtDone = [full |-> <<>>, len |-> 0]
    /\ reads = 0
    /\ outcome = "none"
    /\ header = NoHeader
    /\ appended = 0
    /\ lookup = [state |-> "none", content |-> <<>>, buffer |-> <<>>]
    /\ superseded = {}
    /\ turns = 0
    /\ clears = 0

Absent == "undefined"
NoResponse == [transport |-> "none", status |-> Absent, progress |-> Absent,
               error_message |-> Absent]

\* no waitForBotReady call has been made
InitPoll ==
    /\ pollIdx = 0
    /\ pollPc = "idle"
    /\ hasCallback = FALSE
    /\ progressCalls = <<>>
    /\ rejectReason = Absent
    /\ lastResponse = NoResponse
    /\ beyond = FALSE
    /\ requests = 0
    /\ timers = 0
    /\ settles = 0

\* localStorage.getItem answers null until the first setItem
NoItem == [present |-> FALSE, item |-> <<>>]

\* first visit: nothing in localStorage, no session saved or deleted
InitStore ==
    /\ sessions = <<>>
    /\ storage = NoItem
    /\ now = 0
    /\ removed = {}
    /\ picks = 0

\* BotList has mounted and its effect has called loadBots; BotDetails and
\* CreateBot are at rest
InitRag ==
    /\ upPc = "idle"
    /\ upCallback = FALSE
    /\ upReason = Absent
    /\ upTransport = "none"
    /\ hfPc = "idle"
    /\ uploading = FALSE
    /\ uploadError = Absent
    /\ uploadSuccess = Absent
    /\ fileName = <<>>
    /\ uploadPosts = 0
    /\ creating = FALSE
    /\ createPc = "idle"
    /\ createError = Absent
    /\ loading = TRUE
    /\ listPc = "awaiting"
    /\ listError = Absent
    /\ failures = {}
    /\ bots = <<>>
    /\ deleting = {}
    /\ gone = {}
    /\ deletedOk = {}

\* ChatPanel after mount; Bedrock is not configured unless stated otherwise
InitPanel ==
    /\ cpMessages = <<>>
    /\ cpLoading = FALSE
    /\ cpPc = "idle"
    /\ cpQuestion = <<>>
    /\ asked = 0
    /\ attempts = 0

\* AudioProcessor after its constructor
InitAudio ==
    /\ isRecording = FALSE
    /\ originalSampleRate = Absent
    /\ audioBuffer = <<>>
    /\ bufferSize = 0
    /\ silenceCounter = 0
    /\ chunkCount = 0
    /\ port = <<>>
    /\ spoken = <<>>
    /\ spoke = FALSE
    /\ quiet = 0
    /\ ends = 0
    /\ processed = 0
    /\ commands = 0

InitOther == InitPanel /\ cpConfigured = FALSE /\ InitAudio

Init == InitChat /\ InitPoll /\ InitStore /\ InitRag /\ InitOther /\ script = <<>>

\* ------------------------------------------------------ useChatHistory
\* position at which a stable descending sort places s behind the sorted list
\* sorted: after every element whose updatedAt is not smaller
InsertAt(sorted, s) ==
    IF \E i \in 1..Len(sorted) : sorted[i].updatedAt < s.updatedAt
    THEN CHOOSE i \in 1..Len(sorted) :
             /\ sorted[i].updatedAt < s.updatedAt
             /\ \A j \in 1..(i - 1) : sorted[j].updatedAt >= s.updatedAt
    ELSE Len(sorted) + 1

\* updated.sort((a, b) => b.updatedAt.getTime() - a.updatedAt.getTime())
RECURSIVE SortByUpdatedAt(_)
SortByUpdatedAt(list) ==
    IF list = <<>> THEN <<>>
    ELSE LET n == Len(list)
             sorted == SortByUpdatedAt(SubSeq(list, 1, n - 1))
             i == InsertAt(sorted, list[n])
         IN  SubSeq(sorted, 1, i - 1) \o <<list[n]>> \o SubSeq(sorted, i, Len(sorted))

HasSession(list, id) == \E i \in 1..Len(list) : list[i].id = id

\* the list is left in the order the calls produced
SaveSession_NoSort(prev, session, t) ==
    IF HasSession(prev, session.id)
    THEN [i \in 1..Len(prev) |->
             IF prev[i].id = session.id THEN [session EXCEPT !.updatedAt = t]
             ELSE prev[i]]
    ELSE Append(prev, session)

\* the updater of saveSession: replace or append, then sort; t is new Date()
SaveSession(prev, session, t) ==
    LET updated == IF HasSession(prev, session.id)
                   THEN [i \in 1..Len(prev) |->
                            IF prev[i].id = session.id
                            THEN [session EXCEPT !.updatedAt = t]
                            ELSE prev[i]]
                   ELSE Append(prev, session)
    IN  SortByUpdatedAt(updated)

\* the updater of deleteSession
KeepsId(id, s) == s.id # id

DeleteSession(prev, id) == SelectSeq(prev, LAMBDA s : KeepsId(id, s))

\* JSON.stringify of the list: a Date becomes its ISO string
Stringify(list) ==
    [i \in 1..Len(list) |-> [list[i] EXCEPT !.updatedAt = <<"iso", list[i].updatedAt>>]]

\* localStorage.setItem(STORAGE_KEY, JSON.stringify(updated))
SetItem(list) == [present |-> TRUE, item |-> Stringify(list)]

\* the save effect of Chat / App, run after a render in which currentSession
\* or messages was set, and the saveSession call it makes
SaveEffect ==
    IF Len(messages') > 0
    THEN LET updated == SaveSession(sessions,
                            [id |-> currentSession'.id, title |-> currentSession'.title,
                             messages |-> messages', updatedAt |-> now], now)
         IN  /\ sessions' = updated
             /\ storage' = SetItem(updated)
    ELSE UNCHANGED <<sessions, storage>>

\* ------------------------------------------------------------ useChat
\* content.slice(0, 40).trim(), then '...' unless nothing was cut or trimmed
AutoTitle(content) ==
    LET autoTitle == Trim(Slice(content, 0, TitleMax))
    IN  IF Len(autoTitle) = Len(content) THEN autoTitle ELSE autoTitle \o Ellipsis

StartNewSession ==
    /\ nextLocal' = nextLocal + 1
    /\ currentSession' = NewSession(nextLocal + 1)
    /\ messages' = <<>>
    /\ UNCHANGED <<isLoading, isStreaming, streamingMessage, pc, sessionToUse,
                   sessionId, fullResponse, wire, clearPc, clearId, reqId, latestId,
                   sentFrames, doneSeen, bufAtDone, reads, outcome, header, appended, lookup,
                   superseded, turns, clears>>
    /\ SaveEffect
    /\ UNCHANGED <<now, removed, picks>>
    /\ UNCHANGED <<pollVars, ragVars, otherApps>>

\* the input submits although it is disabled
CanSubmit_IgnoresDisabled(content) == Trim(content) # <<>>

\* ChatInput.handleSubmit: message.trim() && !disabled, with disabled={isLoading}
CanSubmit(content) == Trim(content) # <<>> /\ ~isLoading

\* ChatInput.handleSubmit -> sendMessage, up to the await of chatService.sendMessage
SendMessage(content) ==
    /\ CanSubmit(content)
    /\ turns' = turns + 1
    /\ LET msg == Trim(content)
           titled == IF Len(currentSession.messages) = 0 /\ currentSession.title = NewChatTitle
                     THEN [currentSession EXCEPT !.title = AutoTitle(msg)]
                     ELSE currentSession
       IN  /\ sessionToUse' = titled
           /\ currentSession' = titled
           /\ messages' = Append(messages, Msg("user", msg))
           /\ reqId' = titled.id
    /\ isLoading' = TRUE
    /\ isStreaming' = TRUE
    /\ streamingMessage' = <<>>
    /\ pc' = "awaitPost"
    /\ fullResponse' = <<>>
    /\ wire' = <<>>
    /\ sentFrames' = <<>>
    /\ doneSeen' = FALSE
    /\ bufAtDone' = [full |-> <<>>, len |-> 0]
    /\ reads' = 0
    /\ outcome' = "none"
    /\ header' = NoHeader
    /\ appended' = 0
    /\ lookup' = [state |-> "none", content |-> <<>>, buffer |-> <<>>]
    /\ sessionId' = NoHeader
    /\ UNCHANGED <<nextLocal, clearPc, clearId, latestId, superseded, clears>>
    /\ SaveEffect
    /\ removed' = removed \ {currentSession.id}
    /\ UNCHANGED <<now, picks>>
    /\ UNCHANGED <<pollVars, ragVars, otherApps>>

\* the header is ignored and the caller's id handed back
ResponseSessionId_IgnoresHeader(h, sid) == sid

\* ChatService.sendMessage: response.headers.get('X-Session-ID') || sessionId || ''
ResponseSessionId(h, sid) == IF h # NoHeader THEN h ELSE sid

\* the catch block forgets setIsStreaming(false)
CatchAndFinally_KeepsStreaming ==
    /\ isStreaming' = isStreaming
    /\ streamingMessage' = <<>>
    /\ isLoading' = FALSE
    /\ pc' = "idle"

\* catch of sendMessage followed by its finally
CatchAndFinally ==
    /\ isStreaming' = FALSE
    /\ streamingMessage' = <<>>
    /\ isLoading' = FALSE
    /\ pc' = "idle"

\* POST /chat/stream answers; sendMessage runs up to the first reader.read()
PostResponds(ok, h, frames) ==
    /\ pc = "awaitPost"
    /\ IF ok
       THEN LET sid == ResponseSessionId(h, reqId)
            IN  /\ sessionId' = sid
                /\ IF sid # sessionToUse.id
                   THEN /\ sessionToUse' = [sessionToUse EXCEPT !.id = sid]
                        /\ currentSession' = [sessionToUse EXCEPT !.id = sid]
                        /\ superseded' = superseded \cup ({sessionToUse.id} \ ServerIds)
                        /\ messages' = messages
                        /\ SaveEffect
                        /\ removed' = removed \ {sid}
                   ELSE UNCHANGED <<sessionToUse, currentSession, superseded, messages,
                                    sessions, storage, removed>>
                /\ wire' = EncodeFrames(frames)
                /\ sentFrames' = frames
                /\ pc' = "reading"
                /\ header' = h
                /\ UNCHANGED <<isStreaming, streamingMessage, isLoading, outcome>>
       ELSE /\ CatchAndFinally
            /\ outcome' = "postFailed"
            /\ header' = NoHeader
            /\ UNCHANGED <<sessionId, sessionToUse, currentSession, superseded,
                           wire, sentFrames, messages, sessions, storage, removed>>
    /\ UNCHANGED <<fullResponse, nextLocal, clearPc, clearId, reqId,
                   latestId, doneSeen, bufAtDone, reads, appended, lookup, turns,
                   clears>>
    /\ UNCHANGED <<now, picks>>
    /\ UNCHANGED <<pollVars, ragVars, otherApps>>

\* the for loop over the lines of one chunk, up to its end or to `[DONE]`
RECURSIVE ProcessLines(_, _)
ProcessLines(lines, full) ==
    IF lines = <<>> THEN [full |-> full, done |-> FALSE]
    ELSE LET line == Head(lines)
         IN  IF StartsWith(line, DataPrefix)
             THEN LET data == Slice(line, PrefixLen, Len(line))
                  IN  IF data = DoneMark THEN [full |-> full, done |-> TRUE]
                      ELSE IF data # <<>> THEN ProcessLines(Tail(lines), full \o data)
                      ELSE ProcessLines(Tail(lines), full)
             ELSE ProcessLines(Tail(lines), full)

\* reader.read() delivers the next k bytes of the body
ReaderRead(k) ==
    /\ pc = "reading"
    /\ k \in 1..Len(wire)
    /\ LET chunk == Decode(SubSeq(wire, 1, k))
           r == ProcessLines(SplitLines(chunk), fullResponse)
       IN  /\ fullResponse' = r.full
           /\ streamingMessage' = IF r.full # fullResponse THEN r.full ELSE streamingMessage
           /\ IF r.done
              THEN /\ isStreaming' = FALSE
                   /\ pc' = "awaitLatest"
                   /\ latestId' = sessionId
                   /\ doneSeen' = TRUE
                   /\ bufAtDone' = IF doneSeen THEN bufAtDone
                                   ELSE [full |-> r.full, len |-> Len(messages)]
              ELSE UNCHANGED <<isStreaming, pc, latestId, doneSeen, bufAtDone>>
    /\ wire' = SubSeq(wire, k + 1, Len(wire))
    /\ reads' = reads + 1
    /\ UNCHANGED <<currentSession, messages, isLoading, sessionToUse, sessionId,
                   nextLocal, clearPc, clearId, reqId, sentFrames, outcome, header, appended,
                   lookup, superseded, turns, clears>>
    /\ UNCHANGED <<pollVars, storeVars, ragVars, otherApps>>

\* the streamed text is used whatever the lookup answers
AssistantContent_Streamed(ok, content) == fullResponse

\* content of the assistant message of the `[DONE]` branch: try uses the
\* looked-up text, catch the streamed text
AssistantContent(ok, content) == IF ok THEN content ELSE fullResponse

\* GET /chat/latest answers; the `[DONE]` branch finishes and breaks out of the for loop
LatestResponds(ok, content) ==
    /\ pc = "awaitLatest"
    /\ messages' = Append(messages, Msg("assistant", AssistantContent(ok, content)))
    /\ lookup' = [state |-> IF ok THEN "ok" ELSE "failed", content |-> content,
                   buffer |-> fullResponse]
    /\ appended' = appended + 1
    /\ streamingMessage' = <<>>
    /\ pc' = "reading"
    /\ UNCHANGED <<currentSession, isLoading, isStreaming, sessionToUse, sessionId,
                   fullResponse, wire, nextLocal, clearPc, clearId, reqId, latestId,
                   sentFrames, doneSeen, bufAtDone, reads, outcome, header,
                   superseded, turns, clears>>
    /\ SaveEffect
    /\ UNCHANGED <<now, removed, picks>>
    /\ UNCHANGED <<pollVars, ragVars, otherApps>>

\* reader.read() reports done: leave the while loop, run finally
ReaderDone ==
    /\ pc = "reading"
    /\ wire = <<>>
    /\ isLoading' = FALSE
    /\ pc' = "idle"
    /\ outcome' = "closed"
    /\ UNCHANGED <<currentSession, messages, isStreaming, streamingMessage,
                   sessionToUse, sessionId, fullResponse, wire, nextLocal, clearPc,
                   clearId, reqId, latestId, sentFrames, doneSeen, bufAtDone, reads,
                   header, appended, lookup, superseded, turns, clears>>
    /\ UNCHANGED <<pollVars, storeVars, ragVars, otherApps>>

\* reader.read() rejects (connection lost): catch, finally
ReaderError ==
    /\ pc = "reading"
    /\ CatchAndFinally
    /\ wire' = <<>>
    /\ outcome' = "readFailed"
    /\ UNCHANGED <<currentSession, messages, sessionToUse, sessionId, fullResponse,
                   nextLocal, clearPc, clearId, reqId, latestId, sentFrames, doneSeen,
                   bufAtDone, reads, header, appended, lookup, superseded, turns,
                   clears>>
    /\ UNCHANGED <<pollVars, storeVars, ragVars, otherApps>>

\* clearCurrentChat up to the await of chatService.clearChatHistory
ClearCurrentChat ==
    /\ clearPc = "idle"
    /\ clears' = clears + 1
    /\ clearPc' = "awaitDelete"
    /\ clearId' = currentSession.id
    /\ UNCHANGED <<currentSession, messages, isLoading, isStreaming, streamingMessage,
                   pc, sessionToUse, sessionId, fullResponse, wire, nextLocal, reqId,
                   latestId, sentFrames, doneSeen, bufAtDone, reads, outcome, header, appended,
                   lookup, superseded, turns>>
    /\ UNCHANGED <<pollVars, storeVars, ragVars, otherApps>>

\* DELETE /chat/history answers
ClearResponds(ok) ==
    /\ clearPc = "awaitDelete"
    /\ clearPc' = "idle"
    /\ messages' = IF ok THEN <<>> ELSE messages
    /\ UNCHANGED <<currentSession, isLoading, isStreaming, streamingMessage, pc,
                   sessionToUse, sessionId, fullResponse, wire, nextLocal, clearId,
                   reqId, latestId, sentFrames, doneSeen, bufAtDone, reads,
                   outcome, header, appended, lookup, superseded, turns, clears>>
    /\ IF ok THEN SaveEffect ELSE UNCHANGED <<sessions, storage>>
    /\ UNCHANGED <<now, removed, picks>>
    /\ UNCHANGED <<pollVars, ragVars, otherApps>>

\* Chat / App: if (isStreaming && streamingMessage) a message with id
\* 'streaming' is pushed behind the transcript
ShowsPlaceholder == isStreaming /\ streamingMessage # <<>>

AllMessages ==
    IF ShowsPlaceholder THEN Append(messages, Msg("assistant", streamingMessage))
    ELSE messages

Headers == {NoHeader} \cup ServerIds

\* the bodies the server sends in the session-level specification
SessionBodies == { <<>>, << <<"a">> >>, << <<"a">>, DoneMark >> }

\* a character outside the basic plane is two UTF-16 code units of the string
HighSurrogate == "D83D"
LowSurrogate == "DE00"

MaxInput == 43

\* a message of n code units, all `a` except what kind puts at position k
TitleInput(n, k, kind) ==
    [i \in 1..n |->
        IF kind = "space" /\ i = k THEN " "
        ELSE IF kind = "pair" /\ i = k THEN HighSurrogate
        ELSE IF kind = "pair" /\ i = k + 1 THEN LowSurrogate
        ELSE "a"]

TitleInputs ==
    { TitleInput(n, k, kind) : n \in 1..MaxInput, k \in 1..MaxInput,
                               kind \in {"plain", "space", "pair"} }
    \ { TitleInput(n, n, "pair") : n \in 1..MaxInput }

\* the first message of a session, of any length around the title limit
NextTitle ==
    \/ turns = 0 /\ \E content \in TitleInputs : SendMessage(content)

SpecTitle == Init /\ [][NextTitle]_vars

\* one call of sendMessage, any body, any chunking
NextStream ==
    \/ turns = 0 /\ \E content \in Contents : SendMessage(content)
    \/ \E ok \in BOOLEAN, h \in {NoHeader, <<"server", 1>>}, frames \in FrameSeqs :
          PostResponds(ok, h, frames)
    \/ \E k \in 1..Len(wire) : ReaderRead(k)
    \/ \E ok \in BOOLEAN, content \in Canonical : LatestResponds(ok, content)
    \/ ReaderDone
    \/ ReaderError

SpecStream == Init /\ [][NextStream]_vars

\* several turns and the other entry points of the hook, bodies delivered whole
Next ==
    \/ nextLocal < MaxSessions /\ StartNewSession
    \/ turns < MaxTurns /\ \E content \in Contents : SendMessage(content)
    \/ \E ok \in BOOLEAN, h \in Headers \cup {reqId}, frames \in SessionBodies :
          PostResponds(ok, h, frames)
    \/ ReaderRead(Len(wire))
    \/ \E ok \in BOOLEAN, content \in Canonical : LatestResponds(ok, content)
    \/ ReaderDone
    \/ ReaderError
    \/ clears < MaxClears /\ ClearCurrentChat
    \/ \E ok \in BOOLEAN : ClearResponds(ok)

Spec == Init /\ [][Next]_vars


\* ------------------------------------------------ Chat with its sidebar
\* the session is dropped from the store but the active session is kept
HandleDeleteSession_KeepsActive(i) ==
    /\ i \in 1..Len(sessions)
    /\ LET updated == DeleteSession(sessions, sessions[i].id)
       IN  /\ sessions' = updated
           /\ storage' = SetItem(updated)
    /\ removed' = removed \cup {sessions[i].id}
    /\ UNCHANGED <<nextLocal, currentSession, messages>>
    /\ UNCHANGED <<isLoading, isStreaming, streamingMessage, pc, sessionToUse,
                   sessionId, fullResponse, wire, clearPc, clearId, reqId, latestId,
                   sentFrames, doneSeen, bufAtDone, reads, outcome, header, appended,
                   lookup, superseded, turns, clears>>
    /\ picks' = picks + 1
    /\ UNCHANGED now
    /\ UNCHANGED <<pollVars, ragVars, otherApps>>

\* the delete button of entry i of the sidebar: deleteSession, and
\* startNewSession when the entry is the active session; the save effect that
\* follows finds an empty transcript
HandleDeleteSession(i) ==
    /\ i \in 1..Len(sessions)
    /\ LET updated == DeleteSession(sessions, sessions[i].id)
       IN  /\ sessions' = updated
           /\ storage' = SetItem(updated)
    /\ removed' = removed \cup {sessions[i].id}
    /\ IF currentSession.id = sessions[i].id
       THEN /\ nextLocal' = nextLocal + 1
            /\ currentSession' = NewSession(nextLocal + 1)
            /\ messages' = <<>>
       ELSE UNCHANGED <<nextLocal, currentSession, messages>>
    /\ UNCHANGED <<isLoading, isStreaming, streamingMessage, pc, sessionToUse,
                   sessionId, fullResponse, wire, clearPc, clearId, reqId, latestId,
                   sentFrames, doneSeen, bufAtDone, reads, outcome, header, appended,
                   lookup, superseded, turns, clears>>
    /\ picks' = picks + 1
    /\ UNCHANGED now
    /\ UNCHANGED <<pollVars, ragVars, otherApps>>

\* the transcript of the stored session is appended to the current one
LoadSession_Appends(i) ==
    /\ i \in 1..Len(sessions)
    /\ currentSession' = [id |-> sessions[i].id, title |-> sessions[i].title,
                          messages |-> sessions[i].messages]
    /\ messages' = messages \o sessions[i].messages
    /\ SaveEffect
    /\ UNCHANGED <<isLoading, isStreaming, streamingMessage, pc, sessionToUse,
                   sessionId, fullResponse, wire, nextLocal, clearPc, clearId, reqId,
                   latestId, sentFrames, doneSeen, bufAtDone, reads, outcome, header,
                   appended, lookup, superseded, turns, clears>>
    /\ picks' = picks + 1
    /\ UNCHANGED <<now, removed>>
    /\ UNCHANGED <<pollVars, ragVars, otherApps>>

\* entry i of the sidebar is selected: handleSelectSession -> loadSession, and
\* the save effect
LoadSession(i) ==
    /\ i \in 1..Len(sessions)
    /\ currentSession' = [id |-> sessions[i].id, title |-> sessions[i].title,
                          messages |-> sessions[i].messages]
    /\ messages' = sessions[i].messages
    /\ SaveEffect
    /\ UNCHANGED <<isLoading, isStreaming, streamingMessage, pc, sessionToUse,
                   sessionId, fullResponse, wire, nextLocal, clearPc, clearId, reqId,
                   latestId, sentFrames, doneSeen, bufAtDone, reads, outcome, header,
                   appended, lookup, superseded, turns, clears>>
    /\ picks' = picks + 1
    /\ UNCHANGED <<now, removed>>
    /\ UNCHANGED <<pollVars, ragVars, otherApps>>

\* what the server answers in the page-level specification
ChatHeaders == { NoHeader, <<"server", 1>> }

ChatBodies == { << <<"a">> >>, << <<"a">>, DoneMark >> }

MaxEvents == 2

\* New Chat, Clear Chat and sidebar events so far
UiEvents == (nextLocal - 1) + clears + picks

\* the hook inside Chat: every entry point of the page
NextChat ==
    \/ UiEvents < MaxEvents /\ StartNewSession
    \/ turns < MaxTurns /\ \E content \in Contents : SendMessage(content)
    \/ \E ok \in BOOLEAN, h \in ChatHeaders, frames \in ChatBodies :
          PostResponds(ok, h, frames)
    \/ ReaderRead(Len(wire))
    \/ \E ok \in BOOLEAN, content \in Canonical : LatestResponds(ok, content)
    \/ ReaderDone
    \/ ReaderError
    \/ UiEvents < MaxEvents /\ ClearCurrentChat
    \/ \E ok \in BOOLEAN : ClearResponds(ok)
    \/ UiEvents < MaxEvents /\ \E i \in 1..Len(sessions) : LoadSession(i)
    \/ UiEvents < MaxEvents /\ \E i \in 1..Len(sessions) : HandleDeleteSession(i)

SpecChat == Init /\ [][NextChat]_vars

\* ------------------------------------------- useChatHistory on its own
MaxClock == 2

StoreIds == { LocalId(1), LocalId(2), <<"server", 1>> }

\* the clock advances
Tick ==
    /\ now' = now + 1
    /\ UNCHANGED <<sessions, storage, removed, picks>>
    /\ UNCHANGED <<chatVars, pollVars, ragVars, otherApps>>

\* saveSession(session) called with a session stamped at some earlier time
SaveSessionCall(session) ==
    /\ session.updatedAt <= now
    /\ LET updated == SaveSession(sessions, session, now)
       IN  /\ sessions' = updated
           /\ storage' = SetItem(updated)
    /\ removed' = removed \ {session.id}
    /\ UNCHANGED <<now, picks>>
    /\ UNCHANGED <<chatVars, pollVars, ragVars, otherApps>>

\* deleteSession(sessionId)
DeleteSessionCall(id) ==
    /\ LET updated == DeleteSession(sessions, id)
       IN  /\ sessions' = updated
           /\ storage' = SetItem(updated)
    /\ removed' = removed \cup {id}
    /\ UNCHANGED <<now, picks>>
    /\ UNCHANGED <<chatVars, pollVars, ragVars, otherApps>>

NextStore ==
    \/ now < MaxClock /\ Tick
    \/ \E id \in StoreIds, t \in 0..MaxClock :
          SaveSessionCall([id |-> id, title |-> NewChatTitle,
                           messages |-> <<Msg("user", <<"h", "i">>)>>, updatedAt |-> t])
    \/ \E id \in StoreIds : DeleteSessionCall(id)

SpecStore == Init /\ [][NextStore]_vars

\* ------------------------------------------- useChat of langchain-chat
BasicTitleMax == 30
NoSession == [id |-> NoHeader, title |-> <<>>, messages |-> <<>>]

\* content.slice(0, 30) + (content.length > 30 ? '...' : '')
BasicTitle(content) ==
    Slice(content, 0, BasicTitleMax) \o
        (IF Len(content) > BasicTitleMax THEN Ellipsis ELSE <<>>)

\* ChatInput.handleSubmit -> sendMessage of the hook without the lookup, up to
\* the await of chatService.sendMessage; a title is derived only when there is
\* no current session
SendMessageBasic(content) ==
    /\ CanSubmit(content)
    /\ turns' = turns + 1
    /\ LET msg == Trim(content)
           used == IF currentSession = NoSession
                   THEN [id |-> LocalId(nextLocal + 1), title |-> BasicTitle(msg),
                         messages |-> <<>>]
                   ELSE currentSession
       IN  /\ sessionToUse' = used
           /\ currentSession' = used
           /\ nextLocal' = IF currentSession = NoSession THEN nextLocal + 1 ELSE nextLocal
           /\ messages' = Append(messages, Msg("user", msg))
           /\ reqId' = used.id
    /\ isLoading' = TRUE
    /\ isStreaming' = TRUE
    /\ streamingMessage' = <<>>
    /\ pc' = "awaitPost"
    /\ fullResponse' = <<>>
    /\ wire' = <<>>
    /\ sentFrames' = <<>>
    /\ doneSeen' = FALSE
    /\ bufAtDone' = [full |-> <<>>, len |-> 0]
    /\ reads' = 0
    /\ outcome' = "none"
    /\ header' = NoHeader
    /\ appended' = 0
    /\ lookup' = [state |-> "none", content |-> <<>>, buffer |-> <<>>]
    /\ sessionId' = NoHeader
    /\ UNCHANGED <<clearPc, clearId, latestId, superseded, clears>>
    /\ SaveEffect
    /\ removed' = removed \ {currentSession.id}
    /\ UNCHANGED <<now, picks>>
    /\ UNCHANGED <<pollVars, ragVars, otherApps>>

\* its for loop over the lines of one chunk: every payload is accumulated
RECURSIVE ProcessLinesBasic(_, _)
ProcessLinesBasic(lines, full) ==
    IF lines = <<>> THEN [full |-> full, done |-> FALSE]
    ELSE LET line == Head(lines)
         IN  IF StartsWith(line, DataPrefix)
             THEN LET data == Slice(line, PrefixLen, Len(line))
                  IN  IF data = DoneMark THEN [full |-> full, done |-> TRUE]
                      ELSE ProcessLinesBasic(Tail(lines), full \o data)
             ELSE ProcessLinesBasic(Tail(lines), full)

\* reader.read() delivers the next k bytes; at `[DONE]` the assistant message
\* is built from the buffer at once and the for loop is left
ReaderReadBasic(k) ==
    /\ pc = "reading"
    /\ k \in 1..Len(wire)
    /\ LET chunk == Decode(SubSeq(wire, 1, k))
           r == ProcessLinesBasic(SplitLines(chunk), fullResponse)
       IN  /\ fullResponse' = r.full
           /\ IF r.done
              THEN /\ isStreaming' = FALSE
                   /\ messages' = Append(messages, Msg("assistant", r.full))
                   /\ streamingMessage' = <<>>
                   /\ appended' = appended + 1
                   /\ doneSeen' = TRUE
                   /\ bufAtDone' = IF doneSeen THEN bufAtDone
                                   ELSE [full |-> r.full, len |-> Len(messages)]
                   /\ currentSession' = currentSession
                   /\ SaveEffect
              ELSE /\ streamingMessage' = IF r.full # fullResponse THEN r.full
                                          ELSE streamingMessage
                   /\ UNCHANGED <<isStreaming, messages, appended, doneSeen, bufAtDone,
                                  currentSession, sessions, storage>>
    /\ wire' = SubSeq(wire, k + 1, Len(wire))
    /\ reads' = reads + 1
    /\ UNCHANGED <<isLoading, pc, sessionToUse, sessionId, nextLocal, clearPc, clearId,
                   reqId, latestId, sentFrames, outcome, header, lookup, superseded,
                   turns, clears>>
    /\ UNCHANGED <<now, removed, picks>>
    /\ UNCHANGED <<pollVars, ragVars, otherApps>>

\* the hook without the lookup: several turns, New Chat, Clear
NextBasic ==
    \/ nextLocal < MaxSessions /\ StartNewSession
    \/ turns < MaxTurns /\ \E content \in Contents : SendMessageBasic(content)
    \/ \E ok \in BOOLEAN, h \in Headers \cup {reqId}, frames \in SessionBodies :
          PostResponds(ok, h, frames)
    \/ ReaderReadBasic(Len(wire))
    \/ ReaderDone
    \/ ReaderError
    \/ clears < MaxClears /\ ClearCurrentChat
    \/ \E ok \in BOOLEAN : ClearResponds(ok)

SpecBasic == Init /\ [][NextBasic]_vars

\* ------------------------------------------------------ RAGBotService
PollInterval == 1000
GenericFailure == "Bot processing failed"
StatusFailure == "Failed to get bot status"
NetworkFailure == "TypeError: Failed to fetch"

StatusResponse(st, pr, em) ==
    [transport |-> "ok", status |-> st, progress |-> pr, error_message |-> em]

\* what GET /bots/{id}/status may answer
Responses ==
    { StatusResponse("creating", Absent, Absent),
      StatusResponse("creating", "1/3", Absent),
      StatusResponse("processing", Absent, Absent),
      StatusResponse("processing", "1/3", Absent),
      StatusResponse("processing", "2/3", Absent),
      StatusResponse("ready", Absent, Absent),
      StatusResponse("error", Absent, Absent),
      StatusResponse("error", Absent, ""),
      StatusResponse("error", "1/3", "X failed"),
      [transport |-> "non2xx", status |-> Absent, progress |-> Absent,
       error_message |-> Absent],
      [transport |-> "network", status |-> Absent, progress |-> Absent,
       error_message |-> Absent] }

Scripts == UNION { [1..n -> Responses] : n \in 0..MaxScript }

\* the job makes no progress once the script has run out
Stuck == StatusResponse("creating", Absent, Absent)

\* JavaScript truthiness of an optional string
Truthy(v) == v \notin {Absent, ""}

InitP == InitChat /\ InitPoll /\ InitStore /\ InitRag /\ InitOther /\ script \in Scripts

\* the executor calls checkStatus and also schedules it
WaitForBotReadyCall_AlsoTimer(cb) ==
    /\ pollPc = "idle"
    /\ hasCallback' = cb
    /\ pollPc' = "awaiting"
    /\ requests' = requests + 1
    /\ timers' = timers + 1
    /\ UNCHANGED <<script, pollIdx, progressCalls, rejectReason, lastResponse, beyond,
                   settles>>

\* waitForBotReady: the promise executor calls checkStatus, which issues the
\* first status request
WaitForBotReadyCall(cb) ==
    /\ pollPc = "idle"
    /\ hasCallback' = cb
    /\ pollPc' = "awaiting"
    /\ requests' = requests + 1
    /\ UNCHANGED <<script, pollIdx, progressCalls, rejectReason, lastResponse, beyond,
                   timers, settles>>

\* a call of waitForBotReady on its own
WaitForBotReady(cb) ==
    /\ WaitForBotReadyCall(cb)
    /\ UNCHANGED <<chatVars, storeVars, ragVars, otherApps>>

\* getBotStatus: throws on a network error or a non-2xx answer
GetBotStatusError(r) ==
    IF r.transport = "network" THEN NetworkFailure
    ELSE IF r.transport = "non2xx" THEN StatusFailure
    ELSE Absent

\* the callback is invoked whenever progress data is present
ProgressCall_AnyStatus(r) ==
    IF Truthy(r.progress) /\ hasCallback THEN <<r.progress>> ELSE <<>>

\* status === 'processing' && processing_progress && onProgress
ProgressCall(r) ==
    IF r.status = "processing" /\ Truthy(r.progress) /\ hasCallback
    THEN <<r.progress>> ELSE <<>>

\* the server's message is dropped
ErrorReason_AlwaysGeneric(r) == GenericFailure

\* statusInfo.error_message || 'Bot processing failed'
ErrorReason(r) ==
    IF Truthy(r.error_message) THEN r.error_message ELSE GenericFailure

\* the try block of checkStatus after getBotStatus has answered
HandleStatus(r) ==
    IF r.status = "ready"
    THEN [pc |-> "resolved", reason |-> Absent, progress |-> <<>>]
    ELSE IF r.status = "error"
    THEN [pc |-> "rejected", reason |-> ErrorReason(r), progress |-> <<>>]
    ELSE [pc |-> "timer", reason |-> Absent, progress |-> ProgressCall(r)]

\* a failed request is retried after the interval
CheckStatus_RetryOnFailure(r) ==
    IF GetBotStatusError(r) # Absent
    THEN [pc |-> "timer", reason |-> Absent, progress |-> <<>>]
    ELSE HandleStatus(r)

\* checkStatus from the answer of getBotStatus to its end
CheckStatus(r) ==
    IF GetBotStatusError(r) # Absent
    THEN [pc |-> "rejected", reason |-> GetBotStatusError(r), progress |-> <<>>]
    ELSE HandleStatus(r)

\* the status request in flight is answered and checkStatus runs to its end
StatusResponds ==
    /\ pollPc = "awaiting"
    /\ LET r == IF pollIdx < Len(script) THEN script[pollIdx + 1] ELSE Stuck
           out == CheckStatus(r)
       IN  /\ pollPc' = out.pc
           /\ rejectReason' = out.reason
           /\ progressCalls' = progressCalls \o out.progress
           /\ lastResponse' = r
    /\ pollIdx' = IF pollIdx < Len(script) THEN pollIdx + 1 ELSE pollIdx
    /\ beyond' = (beyond \/ pollIdx >= Len(script))
    /\ requests' = requests - 1
    /\ timers' = IF pollPc' = "timer" THEN timers + 1 ELSE timers
    /\ settles' = IF pollPc' \in {"resolved", "rejected"} THEN settles + 1 ELSE settles
    /\ UNCHANGED <<script, hasCallback>>
    /\ UNCHANGED <<chatVars, storeVars, ragVars, otherApps>>

\* the wait gives up after two polls
TimerFires_AttemptCap ==
    /\ pollPc = "timer"
    /\ IF pollIdx < 2
       THEN pollPc' = "awaiting" /\ rejectReason' = rejectReason
       ELSE pollPc' = "rejected" /\ rejectReason' = "Timed out"
    /\ timers' = timers - 1
    /\ requests' = IF pollPc' = "awaiting" THEN requests + 1 ELSE requests
    /\ settles' = IF pollPc' = "rejected" THEN settles + 1 ELSE settles
    /\ UNCHANGED <<script, pollIdx, hasCallback, progressCalls, lastResponse, beyond>>
    /\ UNCHANGED <<chatVars, storeVars, ragVars, otherApps>>

\* setTimeout(checkStatus, 1000) fires: checkStatus issues the next request
TimerFires ==
    /\ pollPc = "timer"
    /\ pollPc' = "awaiting"
    /\ timers' = timers - 1
    /\ requests' = requests + 1
    /\ UNCHANGED <<script, pollIdx, hasCallback, progressCalls, rejectReason,
                   lastResponse, beyond, settles>>
    /\ UNCHANGED <<chatVars, storeVars, ragVars, otherApps>>

NextP ==
    \/ \E cb \in BOOLEAN : WaitForBotReady(cb)
    \/ StatusResponds
    \/ TimerFires

SpecP == InitP /\ [][NextP]_vars

\* the timer and the network are fair
SpecPFair == SpecP /\ WF_vars(StatusResponds) /\ WF_vars(TimerFires)


\* ------------------------------------------- RAGBotService.uploadDocument
UploadFailure == "Failed to upload document"

MaxUploadScript == 2

UploadScripts == UNION { [1..n -> Responses] : n \in 0..MaxUploadScript }

Transports == {"ok", "non2xx", "network"}

InitU == InitChat /\ InitPoll /\ InitStore /\ InitRag /\ InitOther /\ script \in UploadScripts

\* uploadDocument up to the await of fetch; one call is followed at a time
UploadDocumentCall(cb) ==
    /\ upPc \in {"idle", "resolved", "rejected"}
    /\ upPc' = "awaitUpload"
    /\ upCallback' = cb
    /\ uploadPosts' = uploadPosts + 1
    /\ upReason' = Absent
    /\ upTransport' = "none"

\* a call of uploadDocument on its own
UploadDocument(cb) ==
    /\ UploadDocumentCall(cb)
    /\ UNCHANGED <<hfPc, uploading, uploadError, uploadSuccess, fileName, creating,
                   createPc, createError, loading, listPc, listError, failures>>
    /\ UNCHANGED <<chatVars, pollVars, storeVars, botVars, otherApps>>

\* the wait is chained whether or not a callback was supplied
UploadOutcome_AlwaysWaits(t) ==
    IF t = "network" THEN [pc |-> "rejected", reason |-> NetworkFailure]
    ELSE IF t = "non2xx" THEN [pc |-> "rejected", reason |-> UploadFailure]
    ELSE [pc |-> "waiting", reason |-> Absent]

\* uploadDocument from the answer of fetch to its return, throw or second await
UploadOutcome(t) ==
    IF t = "network" THEN [pc |-> "rejected", reason |-> NetworkFailure]
    ELSE IF t = "non2xx" THEN [pc |-> "rejected", reason |-> UploadFailure]
    ELSE IF upCallback THEN [pc |-> "waiting", reason |-> Absent]
    ELSE [pc |-> "resolved", reason |-> Absent]

\* handleFileUpload after `await ragBotService.uploadDocument`: on success up
\* to the await of getBot, on failure through catch and finally
HandleFileUploadResumes(out) ==
    IF out.pc = "resolved"
    THEN /\ uploadSuccess' = "uploaded"
         /\ hfPc' = "awaitGetBot"
         /\ UNCHANGED <<uploading, uploadError, failures>>
    ELSE /\ uploadError' = out.reason
         /\ uploading' = FALSE
         /\ hfPc' = "idle"
         /\ failures' = failures \cup {"upload"}
         /\ UNCHANGED uploadSuccess

\* POST /bots/{id}/documents is answered
UploadResponds(t) ==
    /\ upPc = "awaitUpload"
    /\ upTransport' = t
    /\ LET out == UploadOutcome(t)
       IN  /\ upPc' = out.pc
           /\ upReason' = out.reason
           /\ IF out.pc = "waiting" THEN WaitForBotReadyCall(TRUE) ELSE UNCHANGED pollVars
           /\ IF hfPc = "awaitUpload" /\ out.pc # "waiting"
              THEN HandleFileUploadResumes(out)
              ELSE UNCHANGED <<hfPc, uploading, uploadError, uploadSuccess, failures>>
    /\ UNCHANGED <<upCallback, fileName, uploadPosts, creating, createPc, createError,
                   loading, listPc, listError>>
    /\ UNCHANGED <<chatVars, storeVars, botVars, otherApps>>

\* uploadDocument after `await this.waitForBotReady`: return the result, or
\* let the rejection of the wait propagate
UploadAfterWait ==
    /\ upPc = "waiting"
    /\ pollPc \in {"resolved", "rejected"}
    /\ upPc' = pollPc
    /\ upReason' = rejectReason
    /\ UNCHANGED <<upCallback, upTransport, hfPc, uploading, uploadError, uploadSuccess,
                   fileName, uploadPosts, creating, createPc, createError, loading,
                   listPc, listError, failures>>
    /\ UNCHANGED <<chatVars, pollVars, storeVars, botVars, otherApps>>

\* one call of uploadDocument and the wait it may chain into
NextU ==
    \/ uploadPosts = 0 /\ \E cb \in BOOLEAN : UploadDocument(cb)
    \/ \E t \in Transports : UploadResponds(t)
    \/ StatusResponds
    \/ TimerFires
    \/ UploadAfterWait

SpecU == InitU /\ [][NextU]_vars

\* ------------------------------------------------------------ BotDetails
MaxName == 4
MaxUploads == 1

AllowedExtensions ==
    { <<".", "p", "d", "f">>, <<".", "m", "d">>, <<".", "x", "l", "s", "x">>,
      <<".", "x", "l", "s">> }

UnsupportedType == "Unsupported file type. Allowed: .pdf, .md, .xlsx, .xls"
GetBotFailure == "Failed to fetch bot"

\* String.prototype.toLowerCase on the letters that occur in file names here
ToLowerChar(c) ==
    CASE c = "M" -> "m"
      [] c = "D" -> "d"
      [] c = "P" -> "p"
      [] c = "F" -> "f"
      [] OTHER -> c

ToLowerCase(s) == [i \in 1..Len(s) |-> ToLowerChar(s[i])]

\* name.split('.'): the pieces between dots, always at least one
RECURSIVE SplitDots(_, _)
SplitDots(s, cur) ==
    IF s = <<>> THEN <<cur>>
    ELSE IF Head(s) = "." THEN <<cur>> \o SplitDots(Tail(s), <<>>)
    ELSE SplitDots(Tail(s), Append(cur, Head(s)))

\* '.' + file.name.split('.').pop()?.toLowerCase()
FileExtension(name) ==
    LET pieces == SplitDots(name, <<>>)
    IN  <<".">> \o ToLowerCase(pieces[Len(pieces)])

\* the file names a user may choose: every name of up to MaxName characters
\* over a small alphabet, and the two names of the specification's example
NameChars == {"a", ".", "m", "d", "M"}

FileNames ==
    UNION { [1..n -> NameChars] : n \in 1..MaxName }
    \cup { <<"r", "e", "p", "o", "r", "t", ".", "t", "x", "t">>,
           <<"r", "e", "p", "o", "r", "t", ".", "p", "d", "f">>,
           <<"r", "e", "p", "o", "r", "t", ".", "P", "D", "F">> }

\* the file input's change event with a file chosen, up to the return of the
\* rejected case or to the await of uploadDocument
HandleFileUpload(name) ==
    /\ ~uploading
    /\ hfPc = "idle"
    /\ fileName' = name
    /\ IF FileExtension(name) \notin AllowedExtensions
       THEN /\ uploadError' = UnsupportedType
            /\ UNCHANGED <<upPc, upCallback, upReason, upTransport, hfPc, uploading,
                           uploadSuccess, uploadPosts, failures>>
       ELSE /\ uploading' = TRUE
            /\ uploadError' = Absent
            /\ uploadSuccess' = Absent
            /\ UploadDocumentCall(FALSE)
            /\ hfPc' = "awaitUpload"
            /\ failures' = failures \ {"upload"}
    /\ UNCHANGED <<creating, createPc, createError, loading, listPc, listError>>
    /\ UNCHANGED <<chatVars, pollVars, storeVars, botVars, otherApps>>

\* GET /bots/{id} is answered: onBotUpdated or catch, then finally
GetBotResponds(ok) ==
    /\ hfPc = "awaitGetBot"
    /\ hfPc' = "idle"
    /\ uploading' = FALSE
    /\ IF ok
       THEN UNCHANGED <<uploadError, failures>>
       ELSE /\ uploadError' = GetBotFailure
            /\ failures' = failures \cup {"upload"}
    /\ UNCHANGED <<upPc, upCallback, upReason, upTransport, uploadSuccess, fileName,
                   uploadPosts, creating, createPc, createError, loading, listPc,
                   listError>>
    /\ UNCHANGED <<chatVars, pollVars, storeVars, botVars, otherApps>>

NextB ==
    \/ uploadPosts < MaxUploads /\ \E name \in FileNames : HandleFileUpload(name)
    \/ \E t \in Transports : UploadResponds(t)
    \/ \E ok \in BOOLEAN : GetBotResponds(ok)

SpecB == Init /\ [][NextB]_vars

\* --------------------------------------------------- CreateBot, BotList
NameRequired == "Bot name is required"
CreateFailure == "Failed to create bot"
ListFailure == "Failed to fetch bots"
DeleteFailure == "Failed to delete bot"

MaxBots == 3

\* the bots the server was given, and what GET /bots answers
AllBots == [i \in 1..MaxBots |-> <<"bot", i>>]

ServerBots == SelectSeq(AllBots, LAMBDA b : b \notin gone)

BotNames == { <<>>, <<" ">>, <<"b">> }

\* err instanceof Error ? err.message : ...  for a failed service call
ServiceError(t, whenNon2xx) == IF t = "network" THEN NetworkFailure ELSE whenNon2xx

\* the form is submitted: handleSubmit up to the early return or to the await
\* of createBot
HandleSubmit(name) ==
    /\ ~creating
    /\ createPc = "idle"
    /\ IF Trim(name) = <<>>
       THEN /\ createError' = NameRequired
            /\ UNCHANGED <<creating, createPc, failures>>
       ELSE /\ creating' = TRUE
            /\ createError' = Absent
            /\ createPc' = "awaiting"
            /\ failures' = failures \ {"create"}
    /\ UNCHANGED <<upPc, upCallback, upReason, upTransport, hfPc, uploading, uploadError,
                   uploadSuccess, fileName, uploadPosts, loading, listPc, listError>>
    /\ UNCHANGED <<chatVars, pollVars, storeVars, botVars, otherApps>>

\* the finally block is missing: creating stays true after a failure
CreateSettles_NoFinally(t) ==
    IF t = "ok" THEN [creating |-> FALSE, error |-> createError, failed |-> FALSE]
    ELSE [creating |-> TRUE, error |-> ServiceError(t, CreateFailure), failed |-> TRUE]

\* handleSubmit after `await ragBotService.createBot`: onBotCreated or catch,
\* then finally
CreateSettles(t) ==
    IF t = "ok" THEN [creating |-> FALSE, error |-> createError, failed |-> FALSE]
    ELSE [creating |-> FALSE, error |-> ServiceError(t, CreateFailure), failed |-> TRUE]

\* POST /bots is answered
CreateResponds(t) ==
    /\ createPc = "awaiting"
    /\ createPc' = "idle"
    /\ LET out == CreateSettles(t)
       IN  /\ creating' = out.creating
           /\ createError' = out.error
           /\ failures' = IF out.failed THEN failures \cup {"create"} ELSE failures
    /\ UNCHANGED <<upPc, upCallback, upReason, upTransport, hfPc, uploading, uploadError,
                   uploadSuccess, fileName, uploadPosts, loading, listPc, listError>>
    /\ UNCHANGED <<chatVars, pollVars, storeVars, botVars, otherApps>>

\* the Retry button of the error view: loadBots up to the await of listBots
LoadBots ==
    /\ ~loading
    /\ listError # Absent
    /\ loading' = TRUE
    /\ listPc' = "awaiting"
    /\ failures' = failures \ {"list"}
    /\ UNCHANGED <<upPc, upCallback, upReason, upTransport, hfPc, uploading, uploadError,
                   uploadSuccess, fileName, uploadPosts, creating, createPc, createError,
                   listError>>
    /\ UNCHANGED <<chatVars, pollVars, storeVars, botVars, otherApps>>

\* GET /bots is answered: setBots and setError(null), or catch, then finally
ListResponds(t) ==
    /\ listPc = "awaiting"
    /\ listPc' = "idle"
    /\ loading' = FALSE
    /\ IF t = "ok"
       THEN /\ bots' = ServerBots
            /\ deletedOk' = {}
            /\ listError' = Absent
            /\ UNCHANGED <<failures, deleting, gone>>
       ELSE /\ listError' = ServiceError(t, ListFailure)
            /\ failures' = failures \cup {"list"}
            /\ UNCHANGED botVars
    /\ UNCHANGED <<upPc, upCallback, upReason, upTransport, hfPc, uploading, uploadError,
                   uploadSuccess, fileName, uploadPosts, creating, createPc, createError>>
    /\ UNCHANGED <<chatVars, pollVars, storeVars, otherApps>>

MaxInFlight == 2

InList(list, id) == \E i \in 1..Len(list) : list[i] = id

\* bots.filter(bot => bot.id !== botId), bots being the list handleDeleteBot
\* captured when it was called
FilterBots(closure, id) == SelectSeq(closure, LAMBDA b : b # id)

\* the delete button of a listed bot, confirmed: handleDeleteBot up to the
\* await of deleteBot
HandleDeleteBot(id) ==
    /\ ~loading
    /\ listError = Absent
    /\ InList(bots, id)
    /\ deleting' = deleting \cup {[id |-> id, bots |-> bots]}
    /\ UNCHANGED <<bots, gone, deletedOk>>
    /\ UNCHANGED <<upPc, upCallback, upReason, upTransport, hfPc, uploading, uploadError,
                   uploadSuccess, fileName, uploadPosts, creating, createPc, createError,
                   loading, listPc, listError, failures>>
    /\ UNCHANGED <<chatVars, pollVars, storeVars, otherApps>>

\* DELETE /bots/{id} is answered for the call d: setBots, or catch
DeleteResponds(d, t) ==
    /\ d \in deleting
    /\ deleting' = deleting \ {d}
    /\ IF t = "ok"
       THEN /\ gone' = gone \cup {d.id}
            /\ bots' = FilterBots(d.bots, d.id)
            /\ deletedOk' = deletedOk \cup {d.id}
            /\ UNCHANGED listError
       ELSE /\ listError' = ServiceError(t, DeleteFailure)
            /\ UNCHANGED <<bots, gone, deletedOk>>
    /\ UNCHANGED <<upPc, upCallback, upReason, upTransport, hfPc, uploading, uploadError,
                   uploadSuccess, fileName, uploadPosts, creating, createPc, createError,
                   loading, listPc, failures>>
    /\ UNCHANGED <<chatVars, pollVars, storeVars, otherApps>>

\* BotList on its own: load, delete, retry
NextList ==
    \/ \E t \in Transports : ListResponds(t)
    \/ LoadBots
    \/ Cardinality(deleting) < MaxInFlight /\ \E i \in 1..Len(bots) : HandleDeleteBot(bots[i])
    \/ \E d \in deleting, t \in Transports : DeleteResponds(d, t)

SpecList == Init /\ [][NextList]_vars

\* the file names of the specification's example
ExampleNames ==
    { <<"r", "e", "p", "o", "r", "t", ".", "t", "x", "t">>,
      <<"r", "e", "p", "o", "r", "t", ".", "p", "d", "f">> }

\* the four operations with a busy flag, side by side
NextOps ==
    \/ turns < MaxTurns /\ \E content \in Contents : SendMessage(content)
    \/ \E ok \in BOOLEAN, frames \in ChatBodies : PostResponds(ok, NoHeader, frames)
    \/ ReaderRead(Len(wire))
    \/ \E ok \in BOOLEAN, content \in Canonical : LatestResponds(ok, content)
    \/ ReaderDone
    \/ ReaderError
    \/ uploadPosts < MaxUploads /\ \E name \in ExampleNames : HandleFileUpload(name)
    \/ \E t \in Transports : UploadResponds(t)
    \/ \E ok \in BOOLEAN : GetBotResponds(ok)
    \/ \E name \in BotNames : HandleSubmit(name)
    \/ \E t \in Transports : CreateResponds(t)
    \/ LoadBots
    \/ \E t \in Transports : ListResponds(t)

SpecOps == Init /\ [][NextOps]_vars

\* the steps the network and the stream reader take for a call in flight
ChatAnswers ==
    \/ \E ok \in BOOLEAN, frames \in ChatBodies : PostResponds(ok, NoHeader, frames)
    \/ pc = "reading" /\ wire # <<>> /\ \E k \in 1..Len(wire) : ReaderRead(k)
    \/ \E ok \in BOOLEAN, content \in Canonical : LatestResponds(ok, content)
    \/ ReaderDone

UploadAnswers ==
    \/ \E t \in Transports : UploadResponds(t)
    \/ \E ok \in BOOLEAN : GetBotResponds(ok)

CreateAnswers == \E t \in Transports : CreateResponds(t)

ListAnswers == \E t \in Transports : ListResponds(t)

\* every request is answered and the reader delivers what it has
SpecOpsFair ==
    /\ SpecOps
    /\ WF_vars(ChatAnswers)
    /\ WF_vars(UploadAnswers)
    /\ WF_vars(CreateAnswers)
    /\ WF_vars(ListAnswers)

\* ------------------------------------------------- ChatPanel (llm-chat-app)
\* the texts of getLLMResponse, named by what they say
MockAltitudeAnswer == "mock answer: altitude limits"
MockGeneralAnswer == "mock answer: please ask a more specific question"
FallbackAnswer == "fallback answer: the service cannot be reached"
MockDelay == 1000

\* the words the mock looks for, each one element of a text
Altitude == "KOUDO"
Limit == "SEIGEN"

Includes(s, word) == \E i \in 1..Len(s) : s[i] = word

MaxQuestions == 2
MaxAttempts == 2

\* what the user types before submitting
PanelInputs == { <<>>, <<" ">>, <<Altitude, "?">>, <<" ", "h", "i">>, <<"a", Limit>> }

\* what Bedrock answers, or its failure
BedrockAnswers == { [ok |-> TRUE, text |-> "bedrock answer"], [ok |-> FALSE, text |-> Absent] }

PanelMsg(sender, text) == [sender |-> sender, text |-> text]

InitPanelAny ==
    /\ InitChat /\ InitPoll /\ InitStore /\ InitRag /\ script = <<>>
    /\ InitPanel /\ cpConfigured \in BOOLEAN /\ InitAudio

\* a submit is accepted although a question is being answered
Accepts_IgnoresLoading(message) == message # <<>>

\* if (!message || isLoading) return
Accepts(message) == message # <<>> /\ ~cpLoading

\* the mock branch of getLLMResponse
MockAnswer(question) ==
    IF Includes(question, Altitude) \/ Includes(question, Limit)
    THEN MockAltitudeAnswer ELSE MockGeneralAnswer

\* getLLMResponse with Bedrock configured: its answer, or the fallback of catch
BedrockAnswer(r) == IF r.ok THEN r.text ELSE FallbackAnswer

\* Enter or the send button: handleSendMessage up to the await inside
\* getLLMResponse
HandleSendMessage(inputText) ==
    /\ LET message == Trim(inputText)
       IN  IF Accepts(message)
           THEN /\ cpMessages' = Append(cpMessages, PanelMsg("user", message))
                /\ cpLoading' = TRUE
                /\ cpQuestion' = message
                /\ cpPc' = IF cpConfigured THEN "awaitBedrock" ELSE "awaitTimer"
                /\ asked' = asked + 1
                /\ UNCHANGED attempts
           ELSE /\ attempts' = attempts + 1
                /\ UNCHANGED <<cpMessages, cpLoading, cpQuestion, cpPc, asked>>
    /\ UNCHANGED <<cpConfigured, audioVars>>
    /\ UNCHANGED <<chatVars, pollVars, storeVars, ragVars>>

\* handleSendMessage after `await getLLMResponse`: the assistant message, finally
AppendAnswer(text) ==
    /\ cpMessages' = Append(cpMessages, PanelMsg("assistant", text))
    /\ cpLoading' = FALSE
    /\ cpPc' = "idle"
    /\ UNCHANGED <<cpQuestion, cpConfigured, asked, attempts, audioVars>>
    /\ UNCHANGED <<chatVars, pollVars, storeVars, ragVars>>

\* bedrockService.askQuestion returns or throws
BedrockResponds(r) ==
    /\ cpPc = "awaitBedrock"
    /\ AppendAnswer(BedrockAnswer(r))

\* the timer of the mock branch fires
MockTimerFires ==
    /\ cpPc = "awaitTimer"
    /\ AppendAnswer(MockAnswer(cpQuestion))

NextPanel ==
    \/ asked < MaxQuestions /\ attempts < MaxAttempts /\
           \E inputText \in PanelInputs : HandleSendMessage(inputText)
    \/ \E r \in BedrockAnswers : BedrockResponds(r)
    \/ MockTimerFires

SpecPanel == InitPanelAny /\ [][NextPanel]_vars

BedrockSettles == \E r \in BedrockAnswers : BedrockResponds(r)

\* the SDK call settles and the timer fires
SpecPanelFair == SpecPanel /\ WF_vars(BedrockSettles) /\ WF_vars(MockTimerFires)

\* ------------------------------------------- AudioProcessor (voice-chat)
TargetBufferSize == 3072
MaxSilenceFrames == 20
\* silenceThreshold 0.0008 and the audio levels, in units of 1/10000
SilenceThreshold == 8
\* samples per render quantum handed to process()
QuantumSize == 128
TargetRate == 16000

MaxProcess == 44
MaxRecorded == 25
MaxCommands == 3

\* the rates the main thread may report with 'start'
SampleRates == { 16000, 48000 }

\* calculateAudioLevel of a frame: silence, the threshold itself, speech
Levels == { 0, 8, 9 }

\* Math.round(originalSampleRate / 16000)
DownsampleRate(rate) == (2 * rate + TargetRate) \div (2 * TargetRate)

\* length of downsampleTo16kHz(buffer, originalSampleRate)
DownsampledLength(len, rate) ==
    IF rate = TargetRate THEN len ELSE len \div DownsampleRate(rate)

\* the downsampled samples of the n-th speech frame, kept as one block
Block(n, len) == [frame |-> n, samples |-> len, format |-> "float32"]

RECURSIVE SamplesIn(_)
SamplesIn(buf) ==
    IF buf = <<>> THEN 0 ELSE Head(buf).samples + SamplesIn(Tail(buf))

\* convertToPCM16: every sample becomes a 16-bit integer, in order
ConvertToPCM16(buf) == [i \in 1..Len(buf) |-> [buf[i] EXCEPT !.format = "pcm16"]]

\* flushBuffer: what it leaves in the port and in chunkCount; the buffer and
\* bufferSize are reset by the caller of this operator
FlushBuffer(buf, p, cc) ==
    IF buf = <<>> THEN [port |-> p, chunkCount |-> cc]
    ELSE LET posted == Append(p, [type |-> "audioData", data |-> ConvertToPCM16(buf),
                                  samplesCount |-> SamplesIn(buf)])
         IN  [port |-> IF (cc + 1) % 5 = 0
                       THEN Append(posted, [type |-> "debug", data |-> cc + 1,
                                            samplesCount |-> SamplesIn(buf)])
                       ELSE posted,
              chunkCount |-> cc + 1]

SpeechEnd == [type |-> "speechEnd", data |-> "Speech ended (silence detected)",
              samplesCount |-> 0]

\* port.onmessage, case 'start'
Start(rate) ==
    /\ isRecording' = TRUE
    /\ originalSampleRate' = rate
    /\ audioBuffer' = <<>>
    /\ bufferSize' = 0
    /\ silenceCounter' = 0
    /\ spoke' = FALSE
    /\ quiet' = 0
    /\ ends' = 0
    /\ commands' = commands + 1
    /\ UNCHANGED <<chunkCount, port, spoken, processed>>
    /\ UNCHANGED <<chatVars, pollVars, storeVars, ragVars, panelVars>>

\* port.onmessage, case 'stop'
Stop ==
    /\ isRecording' = FALSE
    /\ IF Len(audioBuffer) > 0
       THEN LET out == FlushBuffer(audioBuffer, port, chunkCount)
            IN  /\ port' = out.port
                /\ chunkCount' = out.chunkCount
                /\ audioBuffer' = <<>>
                /\ bufferSize' = 0
       ELSE UNCHANGED <<port, chunkCount, audioBuffer, bufferSize>>
    /\ commands' = commands + 1
    /\ UNCHANGED <<originalSampleRate, silenceCounter, spoken, spoke, quiet, ends, processed>>
    /\ UNCHANGED <<chatVars, pollVars, storeVars, ragVars, panelVars>>

\* process() is handed a frame of the given level while recording; when not
\* recording it returns at once
Process(level) ==
    /\ isRecording
    /\ processed' = processed + 1
    /\ LET downsampled == Block(Len(spoken) + 1,
                                DownsampledLength(QuantumSize, originalSampleRate))
       IN  IF level > SilenceThreshold
           THEN LET buf == Append(audioBuffer, downsampled)
                    size == bufferSize + downsampled.samples
                IN  /\ silenceCounter' = 0
                    /\ spoken' = Append(spoken, downsampled.frame)
                    /\ spoke' = TRUE
                    /\ quiet' = 0
                    /\ ends' = 0
                    /\ IF size >= TargetBufferSize
                       THEN LET out == FlushBuffer(buf, port, chunkCount)
                            IN  /\ port' = out.port
                                /\ chunkCount' = out.chunkCount
                                /\ audioBuffer' = <<>>
                                /\ bufferSize' = 0
                       ELSE /\ audioBuffer' = buf
                            /\ bufferSize' = size
                            /\ UNCHANGED <<port, chunkCount>>
           ELSE /\ silenceCounter' = silenceCounter + 1
                /\ quiet' = quiet + 1
                /\ IF Len(audioBuffer) > 0 /\ silenceCounter + 1 >= MaxSilenceFrames
                   THEN LET out == FlushBuffer(audioBuffer, port, chunkCount)
                        IN  /\ port' = Append(out.port, SpeechEnd)
                            /\ chunkCount' = out.chunkCount
                            /\ audioBuffer' = <<>>
                            /\ bufferSize' = 0
                            /\ ends' = ends + 1
                   ELSE UNCHANGED <<port, chunkCount, audioBuffer, bufferSize, ends>>
                /\ UNCHANGED <<spoken, spoke>>
    /\ UNCHANGED <<isRecording, originalSampleRate, commands>>
    /\ UNCHANGED <<chatVars, pollVars, storeVars, ragVars, panelVars>>

\* start, stop and frames in any order
NextAudio ==
    \/ commands < MaxCommands /\ \E rate \in SampleRates : Start(rate)
    \/ commands < MaxCommands /\ Stop
    \/ processed < MaxRecorded /\ \E level \in Levels : Process(level)

SpecAudio == Init /\ [][NextAudio]_vars

\* one recording: 'start' once, then frames
NextSpeech ==
    \/ commands = 0 /\ \E rate \in SampleRates : Start(rate)
    \/ processed < MaxProcess /\ \E level \in Levels : Process(level)

SpecSpeech == Init /\ [][NextSpeech]_vars

\* ===================================================== streaming chat reader
NoDone(frames) == \A i \in 1..Len(frames) : frames[i] # DoneMark

StreamClosed == pc = "idle" /\ outcome = "closed"

\* C1: for a body of `data: ` frames without `[DONE]`, once the whole stream
\* has been processed the accumulated buffer, and the streaming text that
\* mirrors it, equal the concatenation of the frame payloads in order,
\* embedded line feeds included.
C1_BufferIsConcatenation ==
    (StreamClosed /\ NoDone(sentFrames)) =>
        /\ fullResponse = Flatten(sentFrames)
        /\ streamingMessage = fullResponse

\* C2: once `[DONE]` has been processed no further reader.read() is issued and
\* nothing that arrives later changes the buffer or adds to the transcript.
C2_StopsAtDone ==
    doneSeen =>
        /\ pc \in {"awaitLatest", "idle"}
        /\ fullResponse = bufAtDone.full
        /\ Len(messages) <= bufAtDone.len + 1

\* C3: when the stream ends without `[DONE]` the accumulated text is the final
\* message: an assistant message with the buffer as content ends the transcript.
C3_PrematureCloseFinalises ==
    (StreamClosed /\ ~doneSeen) =>
        /\ Len(messages) > 0
        /\ messages[Len(messages)] = Msg("assistant", fullResponse)

\* C4: the assistant message appended after `[DONE]` carries the result of the
\* latest-message lookup when the lookup succeeds and the locally accumulated
\* buffer when it fails; a failed lookup does not fail the turn.
C4_LookupOrFallback ==
    lookup.state # "none" =>
        /\ Len(messages) > 0
        /\ messages[Len(messages)] =
               Msg("assistant", IF lookup.state = "ok" THEN lookup.content
                                                        ELSE lookup.buffer)
        /\ appended > 0
        /\ outcome \in {"none", "closed", "readFailed"}
        /\ (outcome = "none") => (isLoading /\ pc \in {"reading", "awaitLatest"})

C4_Witness ==
    /\ lookup.state = "failed"
    /\ lookup.buffer = <<"a">>
    /\ messages[Len(messages)] = Msg("assistant", <<"a">>)
    /\ StreamClosed

\* C5: when POST /chat/stream fails, no chunk is read, no assistant message is
\* appended and the turn ends with isStreaming and isLoading false and an empty
\* streaming text.
C5_FailedPostEndsTurn ==
    outcome = "postFailed" =>
        /\ pc = "idle"
        /\ reads = 0
        /\ wire = <<>>
        /\ appended = 0
        /\ ~isStreaming
        /\ streamingMessage = <<>>
        /\ ~isLoading

C5_Witness ==
    /\ outcome = "postFailed"
    /\ turns = 2
    /\ Len(messages) > 0
    /\ messages[Len(messages)].role = "user"

IsFailure(r) == r.transport \in {"non2xx", "network"}
IsReady(r) == r.transport = "ok" /\ r.status = "ready"
IsError(r) == r.transport = "ok" /\ r.status = "error"
IsSettling(r) == IsFailure(r) \/ IsReady(r) \/ IsError(r)

HasSettling(scr) == \E i \in 1..Len(scr) : IsSettling(scr[i])

\* index of the first response that ends the wait, Len + 1 if there is none
FirstSettling(scr) ==
    IF HasSettling(scr)
    THEN CHOOSE i \in 1..Len(scr) :
             IsSettling(scr[i]) /\ \A j \in 1..(i - 1) : ~IsSettling(scr[j])
    ELSE Len(scr) + 1

\* the progress data of the `processing` responses of a sequence, in order
RECURSIVE ProgressOf(_)
ProgressOf(rs) ==
    IF rs = <<>> THEN <<>>
    ELSE (IF Head(rs).transport = "ok" /\ Head(rs).status = "processing"
             /\ Head(rs).progress # Absent
          THEN <<Head(rs).progress>> ELSE <<>>) \o ProgressOf(Tail(rs))

Settled == pollPc \in {"resolved", "rejected"}

\* C7: onProgress is invoked exactly once, in order, for each `processing`
\* response with progress data that precedes the first terminal response and
\* for no other response; the wait resolves at the first `ready` response and
\* no status request follows.
C7_ProgressCallbacks ==
    /\ [](/\ pollIdx <= FirstSettling(script)
          /\ progressCalls = IF hasCallback
                             THEN ProgressOf(SubSeq(script, 1, pollIdx))
                             ELSE <<>>
          /\ (pollIdx >= 1 /\ IsReady(script[pollIdx])) => pollPc = "resolved"
          /\ pollPc = "resolved" =>
                (pollIdx = FirstSettling(script) /\ IsReady(script[pollIdx])))
    /\ [][pollPc = "resolved" => UNCHANGED pollVars]_vars

C7_Witness ==
    /\ pollPc = "resolved"
    /\ pollIdx = 4
    /\ progressCalls = <<"1/3", "2/3">>
    /\ script[1].status = "creating"

\* C8: on status `error` the wait rejects with the server's error_message when
\* it has one (a non-empty string), with a generic non-empty message otherwise,
\* and schedules no further poll.
C8_ErrorRejects ==
    /\ [](IsError(lastResponse) =>
            /\ pollPc = "rejected"
            /\ rejectReason = IF lastResponse.error_message \notin {Absent, ""}
                              THEN lastResponse.error_message
                              ELSE GenericFailure
            /\ rejectReason \notin {Absent, ""})
    /\ [][IsError(lastResponse) => UNCHANGED pollVars]_vars

C8_Witness ==
    /\ pollPc = "rejected"
    /\ rejectReason = "X failed"
    /\ pollIdx = 2
    /\ IsError(lastResponse)

\* C9: a failed status request rejects the wait with that failure at once; no
\* timer is set and no request is issued afterwards.
C9_FailedPollRejects ==
    /\ [](IsFailure(lastResponse) =>
            /\ pollPc = "rejected"
            /\ rejectReason = GetBotStatusError(lastResponse)
            /\ rejectReason # Absent)
    /\ [][IsFailure(lastResponse) => UNCHANGED pollVars]_vars

C9_Witness ==
    /\ pollPc = "rejected"
    /\ lastResponse.transport = "non2xx"
    /\ rejectReason = StatusFailure
    /\ pollIdx = 3

C11_UploadChainsOnCallback ==
    /\ []((upCallback /\ upPc = "resolved") => (upTransport = "ok" /\ pollPc = "resolved"))
    /\ []((upPc = "rejected" /\ upTransport = "ok") =>
             (upCallback /\ pollPc = "rejected" /\ upReason = rejectReason))
    /\ []((pollPc = "rejected") => upPc \in {"waiting", "rejected"})
    /\ []((~upCallback) => pollPc = "idle")
    /\ []((upTransport = "non2xx") =>
             (upPc = "rejected" /\ upReason = UploadFailure /\ pollPc = "idle"))
    /\ [][ /\ (upPc = "awaitUpload" /\ upTransport' = "ok" /\ ~upCallback) =>
                 upPc' = "resolved"
           /\ (upPc = "awaitUpload" /\ upTransport' = "ok" /\ upCallback) =>
                 (upPc' = "waiting" /\ pollPc' = "awaiting")
           /\ (upPc = "waiting" /\ pollPc = "rejected") =>
                 (upPc' = "rejected" /\ upReason' = rejectReason)
           /\ (upPc = "waiting" /\ pollPc \notin {"resolved", "rejected"}) =>
                 upPc' = "waiting"
         ]_vars

C11_Witness ==
    /\ upCallback
    /\ upPc = "rejected"
    /\ upTransport = "ok"
    /\ pollIdx = 2
    /\ progressCalls = <<"1/3">>
    /\ rejectReason = "X failed"


\* the name ends, ignoring case, with one of the accepted extensions
EndsWithAccepted(name) ==
    \E e \in AllowedExtensions :
        /\ Len(name) >= Len(e)
        /\ ToLowerCase(SubSeq(name, Len(name) - Len(e) + 1, Len(name))) = e

\* C12: handleFileUpload issues the upload request if and only if the chosen
\* file's name ends, case-insensitively, with .pdf, .md, .xlsx or .xls; for
\* every other name it sets an upload error and issues no request.
C12_UploadIffAcceptedExtension ==
    [][ (hfPc = "idle" /\ (hfPc' # hfPc \/ fileName' # fileName
                             \/ uploadError' # uploadError)) =>
            IF EndsWithAccepted(fileName')
            THEN hfPc' = "awaitUpload" /\ uploadPosts' = uploadPosts + 1
            ELSE /\ uploadError' = UnsupportedType
                 /\ uploadPosts' = uploadPosts
                 /\ hfPc' = "idle"
      ]_vars


\* ========================================================= session title
\* C13: after the first message is sent in a session whose title is the
\* placeholder 'New Chat', the title of the active session is the title derived
\* from that message and no longer the placeholder.
C13_FirstMessageTitles ==
    [][ (turns' = turns + 1 /\ currentSession.title = NewChatTitle /\ messages = <<>>) =>
            /\ currentSession'.title = AutoTitle(messages'[1].content)
            /\ currentSession'.title # NewChatTitle
      ]_vars


\* C14: a first message of at most TitleMax code units yields a title identical
\* to the message; a longer message yields exactly its first TitleMax units
\* followed by '...', and the cut does not fall between the two units of a
\* character.
C14_TitleDerivation ==
    turns = 1 =>
        LET msg == messages[1].content
            title == currentSession.title
        IN  IF Len(msg) <= TitleMax
            THEN title = msg
            ELSE /\ title = SubSeq(msg, 1, TitleMax) \o Ellipsis
                 /\ ~(msg[TitleMax] = HighSurrogate /\ msg[TitleMax + 1] = LowSurrogate)


\* ========================================================== session store
\* the store holds a snapshot of session id with transcript ms
HoldsSnapshot(list, id, ms) ==
    \E i \in 1..Len(list) : list[i].id = id /\ list[i].messages = ms

\* C15: after every change of the active session's message sequence (user
\* message appended, assistant message appended, chat cleared) the store holds
\* a snapshot of the active session whose messages equal the transcript.
C15_StoreFollowsTranscript ==
    [][ (messages' # messages /\ currentSession'.id = currentSession.id) =>
            HoldsSnapshot(sessions', currentSession'.id, messages')
      ]_vars


SortedDescending(times) ==
    \A i, j \in 1..Len(times) : i < j => times[i] >= times[j]

\* C16: after any sequence of saveSession and deleteSession calls under a
\* non-decreasing clock the stored list, in memory and in localStorage, is
\* sorted by updatedAt in descending order.
C16_StoreSorted ==
    /\ SortedDescending([i \in 1..Len(sessions) |-> sessions[i].updatedAt])
    /\ SortedDescending([i \in 1..Len(storage.item) |-> storage.item[i].updatedAt[2]])

C16_Witness ==
    /\ Len(sessions) = 2
    /\ sessions[1].id = LocalId(1)
    /\ sessions[1].updatedAt = 2
    /\ sessions[2].updatedAt = 1
    /\ <<"server", 1>> \in removed
    /\ storage = SetItem(sessions)


StoredIds(list) == { list[i].id : i \in 1..Len(list) }

\* C17: handleDeleteSession(id) removes the session with that id from the
\* store, in memory and in localStorage, and it stays removed until a message
\* is sent under that id again (a sendMessage carrying the id, or a turn to
\* which the server gives the id); when id is the active session's id the
\* active session afterwards is a new session with a fresh id and no messages.
C17_DeleteRemoves ==
    /\ [](\A id \in removed :
              id \notin StoredIds(sessions) /\ id \notin StoredIds(storage.item))
    /\ [][ \A id \in removed' \ removed :
              /\ id \in StoredIds(sessions)
              /\ currentSession.id = id =>
                    /\ currentSession'.id # id
                    /\ currentSession'.id \notin StoredIds(sessions)
                    /\ currentSession' = NewSession(nextLocal')
                    /\ nextLocal' = nextLocal + 1
                    /\ messages' = <<>>
              /\ currentSession.id # id =>
                    (currentSession' = currentSession /\ messages' = messages)
         ]_vars

C17_Witness ==
    /\ LocalId(1) \in removed
    /\ currentSession.id = LocalId(2)
    /\ pc = "idle"
    /\ outcome = "closed"
    /\ appended = 1
    /\ Len(sessions) = 1
    /\ sessions[1].id = LocalId(2)
    /\ sessions[1].messages = <<Msg("assistant", <<"c", LF, "d">>)>>


\* ============================================================= transcript
\* C18: the transcript is append-only: every step leaves the message sequence
\* unchanged, appends one message at its end, empties it (clearCurrentChat,
\* startNewSession) or replaces it by the transcript of a stored session that
\* becomes the active one (loadSession); no step removes, reorders or rewrites
\* an individual message.
C18_TranscriptAppendOnly ==
    [][ \/ messages' = messages
        \/ /\ Len(messages') = Len(messages) + 1
           /\ SubSeq(messages', 1, Len(messages)) = messages
        \/ messages' = <<>>
        \/ \E i \in 1..Len(sessions) :
              /\ messages' = sessions[i].messages
              /\ currentSession'.id = sessions[i].id
              /\ picks' = picks + 1
      ]_vars

C18_Witness ==
    /\ picks = 1
    /\ nextLocal = 2
    /\ currentSession.id = LocalId(1)
    /\ messages = <<Msg("user", <<"h", "i">>)>>
    /\ HoldsSnapshot(sessions, LocalId(2),
           <<Msg("user", <<"h", "i">>), Msg("assistant", <<"c", LF, "d">>)>>)


\* C19: at most one streaming turn is in flight: isLoading is true exactly
\* while a sendMessage call has not finished, the chat input cannot start a
\* sendMessage while it is true, and no other event of the page (New Chat,
\* select, delete, clear) ends or restarts the turn in flight.
C19_OneTurnInFlight ==
    /\ [](isLoading <=> pc # "idle")
    /\ [](isLoading => \A content \in Contents : ~CanSubmit(content))
    /\ [][ /\ turns' # turns => (pc = "idle" /\ ~isLoading /\ turns' = turns + 1)
           /\ (nextLocal' # nextLocal \/ picks' # picks \/ clears' # clears
                  \/ clearPc' # clearPc) =>
                 UNCHANGED <<pc, isLoading, reqId, wire, fullResponse, turns>>
         ]_vars

C19_Witness ==
    /\ isLoading
    /\ pc = "awaitLatest"
    /\ turns = 1
    /\ picks = 1
    /\ clearPc = "awaitDelete"


\* ============================================================ busy flags
\* C20: no error is fatal.  When a chat send, a document upload, a bot creation
\* or a bot list load has failed, its busy flag (isLoading, uploading,
\* creating, loading) is false again and the entry point accepts a retry; with
\* requests that are always answered, every busy flag that is set is
\* eventually reset.
C20_NoErrorIsFatal ==
    /\ [](outcome \in {"postFailed", "readFailed"} =>
             (~isLoading /\ \A content \in Contents : CanSubmit(content)))
    /\ []("upload" \in failures => (~uploading /\ hfPc = "idle"))
    /\ []("create" \in failures => (~creating /\ createPc = "idle"))
    /\ []("list" \in failures => (~loading /\ listPc = "idle" /\ listError # Absent))
    /\ (isLoading ~> ~isLoading)
    /\ (uploading ~> ~uploading)
    /\ (creating ~> ~creating)
    /\ (loading ~> ~loading)

C20_Witness ==
    /\ failures = {"upload", "create", "list"}
    /\ outcome = "readFailed"
    /\ turns = 2
    /\ ~isLoading
    /\ ~uploading
    /\ ~creating
    /\ ~loading

\* ================================================== the streaming placeholder
\* C21: whenever no sendMessage call is running (isLoading is false), however
\* the stream ended, isStreaming is false and the displayed transcript is the
\* transcript itself, without the 'streaming' placeholder.
C21_PlaceholderOnlyInFlight ==
    ~isLoading => (~isStreaming /\ AllMessages = messages)

\* ================================================ a stream and its session
\* a step of the sendMessage call in flight (not of the user)
StreamStep == pc # "idle" /\ <<pc, reads, appended>>' # <<pc, reads, appended>>

\* the active session is not the one the call in flight was started in
OtherSessionActive == currentSession.id \notin {reqId, sessionToUse.id}

SnapshotsOf(list, id) == SelectSeq(list, LAMBDA s : s.id = id)

\* C22: when the user has made another session active while a stream is in
\* flight, no later step of that stream changes the active session's id, its
\* transcript or its stored snapshot.
C22_StreamStaysInItsSession ==
    [][(StreamStep /\ OtherSessionActive) =>
          /\ currentSession'.id = currentSession.id
          /\ messages' = messages
          /\ SnapshotsOf(sessions', currentSession.id) = SnapshotsOf(sessions, currentSession.id)]_vars

\* ====================================================== chunk boundaries
\* what the read loop computes when the whole body arrives as one chunk
WholeBody == ProcessLines(SplitLines(Decode(EncodeFrames(sentFrames))), <<>>)

\* C23: the result of a turn depends on the bytes of the body only, not on how
\* they are cut into chunks: every run over a body ends with the buffer, and
\* with as many assistant messages, as the run that receives the same body as
\* one chunk.
C23_ChunkingInvariant ==
    StreamClosed =>
        /\ fullResponse = WholeBody.full
        /\ appended = (IF WholeBody.done THEN 1 ELSE 0)

\* ==================================================== messages per call
CountRole(ms, role) == Len(SelectSeq(ms, LAMBDA m : m.role = role))

\* C24: one call of sendMessage appends exactly one user message and at most
\* one assistant message, whatever the response body holds.
C24_OneAnswerPerCall ==
    /\ CountRole(messages, "user") = turns
    /\ appended <= 1
    /\ CountRole(messages, "assistant") <= turns

\* ============================================ one snapshot per conversation
\* C25: once a turn in which the server's X-Session-ID replaced the local id of
\* the active session has finished, the store holds no snapshot under the
\* superseded local id.
C25_NoSnapshotUnderSupersededId ==
    pc = "idle" => \A id \in superseded : ~HasSession(sessions, id)

\* ================================================= one poll at a time
\* C26: within one waitForBotReady call at most one status request or pending
\* timer exists at any time, a request is issued only when none is pending,
\* and resolve or reject is called at most once, after which nothing is
\* pending.
C26_OnePollAtATime ==
    /\ requests + timers <= 1
    /\ settles <= 1
    /\ requests >= 0 /\ timers >= 0
    /\ Settled <=> settles = 1
    /\ Settled => requests + timers = 0

\* a call that polled three times, waited twice and was settled
C26_Witness ==
    /\ Settled
    /\ pollIdx = 3
    /\ settles = 1
    /\ requests = 0 /\ timers = 0

\* ===================================================== deleting bots
\* C27: a bot whose deleteBot call has succeeded is absent from BotList's local
\* list until the list is loaded again, whatever other deletions are in flight
\* and in whatever order they complete.
C27_DeletedStaysAbsent ==
    \A id \in deletedOk : ~InList(bots, id)

\* ============================================================= ChatPanel
AnswersTo(question) ==
    IF cpConfigured THEN { BedrockAnswer(r) : r \in BedrockAnswers }
    ELSE { MockAnswer(question) }

\* the transcript is question, answer, question, answer, ...
Alternates(ms) ==
    \A i \in 1..Len(ms) :
        IF i % 2 = 1 THEN ms[i].sender = "user"
        ELSE /\ ms[i].sender = "assistant"
             /\ ms[i].text \in AnswersTo(ms[i - 1].text)

C29_SpeechEndAfterSilence ==
    (isRecording /\ spoke /\ quiet >= MaxSilenceFrames) =>
        (ends = 1 /\ audioBuffer = <<>>)

\* the blocks of the audioData messages of the port, in order
RECURSIVE PostedFrames(_)
PostedFrames(p) ==
    IF p = <<>> THEN <<>>
    ELSE IF Head(p).type = "audioData"
    THEN [i \in 1..Len(Head(p).data) |-> Head(p).data[i].frame] \o PostedFrames(Tail(p))
    ELSE PostedFrames(Tail(p))

\* C30: bufferSize is the number of samples in audioBuffer, and whenever the
\* processor is not recording ('stop' has been handled) the audioData messages
\* hold every speech frame accepted while recording exactly once, in order.
C30_EverySpeechFramePosted ==
    /\ bufferSize = SamplesIn(audioBuffer)
    /\ ~isRecording => PostedFrames(port) = spoken

====
